---- MODULE Spec2Model ----
(***************************************************************************)
(* Model of reckless-vs-stockfish, in five parts that share no state:      *)
(*                                                                         *)
(*  Spec, LiveSpec, the concurrent match orchestrator of src/main.rs: the  *)
(*  HangSpec        worker pool (run_worker), the shared game counter, the *)
(*                  bounded result channel and the aggregator loop of main *)
(*  RecordSpec      MatchStats::record applied to the same messages in two *)
(*                  orders                                                 *)
(*  UciSpec         one UciEngine of src/engine/uci.rs and the lines its   *)
(*                  engine process writes                                  *)
(*  GameSpec        GameRunner::play_game of src/game/runner.rs with the   *)
(*                  pair of engines it is called with                      *)
(*  StatsSpec       the MatchStats of src/main.rs as main's record calls   *)
(*                  and the progress task's loads interleave on it         *)
(*                                                                         *)
(* The orchestrator's tasks share two objects only, the atomic counter and *)
(* the channel.  One action of its model is one access to a shared object  *)
(* together with the task-local code around it (engine calls, the Err arm, *)
(* the cleanup).  The outcome of an engine spawn and of a game is decided  *)
(* by the external engine processes, so it is a nondeterministic choice    *)
(* over what UciEngine::new and GameRunner::play_game can return (or never *)
(* return).  The inputs of a run, args.workers and args.games, are chosen  *)
(* in Init.  What the engines write and what the rules library reports of  *)
(* a position are inputs of UciSpec and GameSpec.                          *)
(***************************************************************************)
EXTENDS Integers, Sequences, FiniteSets, TLC

(* ---------------------------------------------------------------- bounds *)

\* Largest args.workers of a run: number of parallel workers (engine pairs).
MaxWorkers == 2

\* Largest size of a run: args.workers + args.games.  A run of one worker
\* plays up to MaxLoad - 1 games, a run of MaxWorkers workers up to
\* MaxLoad - MaxWorkers.
MaxLoad == 5

\* Largest args.games of a run of w workers.
MaxGames(w) == MaxLoad - w

\* Every index the counter can hand out before all workers have stopped.
MaxIndex == MaxLoad + 1

Indices == 0 .. MaxIndex

\* Largest number of GameCompleted messages recorded in two orders.
MaxBatch == 3

\* Largest number of pieces of text in one line of engine output.
MaxLineLen == 5

\* Largest max_moves of a GameRunner.
MaxPlies == 3

\* Largest number of games play_game is called for on one engine pair and
\* its replacements.
MaxGamesInRow == 2

(* ----------------------------------------------------------------- types *)

GameResult == {"WhiteWins", "BlackWins", "Draw"}

EngineNames == {"stockfish", "reckless"}

\* Lifecycle of one engine handle owned by a worker:
\*   none    - not spawned yet
\*   live    - spawned, handshake done, no quit sent
\*   quit    - the quit command was sent to it
\*   dropped - the handle was dropped without a quit being sent
EngineState == {"none", "live", "quit", "dropped"}

NoGame == -1

VARIABLES
    workers,      \* args.workers
    total_games,  \* args.games
    counter,      \* game_counter: the shared AtomicU64
    pc,           \* pc[w]: where worker w is in run_worker
    eng,          \* eng[w]: state of the two engine handles worker w owns
    gen,          \* gen[w]: number of times worker w replaced its engine pair
    game_num,     \* game_num[w]: the index of worker w's iteration, or NoGame
    pending,      \* pending[w]: the GameCompleted worker w is sending
    chan,         \* the mpsc channel: messages sent and not yet received
    mainTx,       \* main still holds its own Sender
    mainPc,       \* where main is
    mainResult,   \* what main returned: "none" while running
    stats,        \* MatchStats
    handed,       \* history: handed[i] = times fetch_add returned index i
    started,      \* history: started[i] = engine that played white in game i
    failures,     \* history: failures[w] = games of worker w that returned Err
    okGames       \* history: number of play_game calls that returned Ok

\* The orchestrator's state.
orchVars == << workers, total_games, counter, pc, eng, gen, game_num, pending,
               chan, mainTx, mainPc, mainResult, stats, handed, started,
               failures, okGames >>

\* Two MatchStats objects that record the same messages.
VARIABLES
    batch,        \* the GameCompleted messages of a run, in arrival order
    statsA,       \* MatchStats recording batch in arrival order
    nextA,        \* number of messages statsA has recorded
    statsB,       \* MatchStats recording batch in another order
    orderB        \* the positions of batch statsB has recorded, in its order

recVars == << batch, statsA, nextA, statsB, orderB >>

\* One UciEngine and the process behind it.
VARIABLES
    uciPc,        \* where the client is: the call it is in, or between calls
    uciOut,       \* the engine's output stream: "open" or "closed"
    uciBytes,     \* what the last read_line of the current call returned
    uciLine,      \* the line whose read made the last call return
    uciRet,       \* what the last call returned, "pending" while it runs
    uciSkipped    \* history: the kinds of line the current get_best_move
                  \* discarded

uciVars == << uciPc, uciOut, uciBytes, uciLine, uciRet, uciSkipped >>

\* One GameRunner, the engine pair it is called with, and the game played.
VARIABLES
    max_moves,    \* GameRunner.max_moves
    gamePc,       \* where play_game is: the call it waits in, or returned
    white,        \* the engine play_game was called with as `white`
    position,     \* `position`: what the rules library reports of it
    moves,        \* `moves`: the move tokens pushed so far
    move_num,     \* `move_num`: the iteration of the for loop
    uci_move_str, \* `uci_move_str` of the iteration: none, or one token
    gameRet,      \* what play_game returned: "none" while it runs
    cmds,         \* cmds[e]: the commands written to engine e in this game
    owed,         \* history: owed[e] = requests written to engine e whose
                  \* answer the client has not read
    overlapped,   \* history: a command was written to an engine that owed
                  \* an answer
    asked,        \* history: the colours asked for a move in this game
    applied,      \* history: the tokens of the moves position.play applied
    games,        \* history: number of play_game calls made
    pair          \* history: number of times the engine pair was replaced

gameVars == << max_moves, gamePc, white, position, moves, move_num,
               uci_move_str, gameRet, cmds, owed, overlapped, asked, applied,
               games, pair >>

\* The MatchStats shared by the aggregating loop of main and the progress
\* task, with the position of each of the two in its code.
VARIABLES
    shared,       \* the counters of the MatchStats behind the Arc
    goal,         \* `total_games` as the progress task captured it
    mainAt,       \* main: "recv" in the receive loop, "summary" after it
    recordMsg,    \* the message main is recording, << >> between records
    recordAt,     \* number of fetch_add calls the current record has made
    recorded,     \* number of record calls that have returned
    progressPc,   \* where the progress task is in its loop
    snap,         \* the locals of print_progress: the values it has loaded
    quiet         \* history: no fetch_add has run since print_progress
                  \* made its first load

progVars == << shared, goal, mainAt, recordMsg, recordAt, recorded,
               progressPc, snap, quiet >>

\* The state the orchestrator's steps leave alone.
otherVars == << recVars, uciVars, gameVars, progVars >>

vars == << orchVars, otherVars >>

\* `for worker_id in 0..args.workers`
Workers == 0 .. (workers - 1)

(* ------------------------------------------------------------- MatchStats *)

ZeroStats ==
    [ stockfish_wins |-> 0, reckless_wins |-> 0, draws |-> 0,
      stockfish_white_wins |-> 0, stockfish_black_wins |-> 0,
      reckless_white_wins |-> 0, reckless_black_wins |-> 0,
      games_completed |-> 0 ]

\* A record whose Draw arm stores games_completed + 1 into draws instead of
\* incrementing draws.
RecordStoresDraws(s, result, stockfish_is_white) ==
    LET t == CASE result = "WhiteWins" /\ stockfish_is_white ->
                    [s EXCEPT !.stockfish_wins = @ + 1,
                              !.stockfish_white_wins = @ + 1]
             []   result = "WhiteWins" /\ ~stockfish_is_white ->
                    [s EXCEPT !.reckless_wins = @ + 1,
                              !.reckless_white_wins = @ + 1]
             []   result = "BlackWins" /\ stockfish_is_white ->
                    [s EXCEPT !.reckless_wins = @ + 1,
                              !.reckless_black_wins = @ + 1]
             []   result = "BlackWins" /\ ~stockfish_is_white ->
                    [s EXCEPT !.stockfish_wins = @ + 1,
                              !.stockfish_black_wins = @ + 1]
             []   OTHER ->
                    [s EXCEPT !.draws = s.games_completed + 1]
    IN  [t EXCEPT !.games_completed = @ + 1]

\* MatchStats::record
Record(s, result, stockfish_is_white) ==
    LET t == CASE result = "WhiteWins" /\ stockfish_is_white ->
                    [s EXCEPT !.stockfish_wins = @ + 1,
                              !.stockfish_white_wins = @ + 1]
             []   result = "WhiteWins" /\ ~stockfish_is_white ->
                    [s EXCEPT !.reckless_wins = @ + 1,
                              !.reckless_white_wins = @ + 1]
             []   result = "BlackWins" /\ stockfish_is_white ->
                    [s EXCEPT !.reckless_wins = @ + 1,
                              !.reckless_black_wins = @ + 1]
             []   result = "BlackWins" /\ ~stockfish_is_white ->
                    [s EXCEPT !.stockfish_wins = @ + 1,
                              !.stockfish_black_wins = @ + 1]
             []   OTHER ->
                    [s EXCEPT !.draws = @ + 1]
    IN  [t EXCEPT !.games_completed = @ + 1]

(* ------------------------------------------------------------ run_worker *)

\* A non-atomic claim: the increment of the counter is lost.
FetchAddLost(c) == c

\* game_counter.fetch_add(1, Relaxed): the value stored by the call.
FetchAdd(c) == c + 1

\* An Err arm that hands the failed index back for replay.
ErrArmReclaims(c) == c - 1

\* The Err arm (lines 193-202) holds no store to game_counter: the counter
\* after a failed game is the counter before it.
ErrArmCounter(c) == c

\* An off-by-one exhaustion test.
ExhaustedLate(n) == n > total_games

\* `if game_num >= total_games { break; }`
Exhausted(n) == n >= total_games

\* `let stockfish_is_white = game_num % 2 == 0;`
StockfishIsWhite(n) == n % 2 = 0

\* The two play_game calls with their arguments exchanged.
WhiteEngineSwapped(n) == IF StockfishIsWhite(n) THEN "reckless" ELSE "stockfish"

\* The first argument of play_game: stockfish when stockfish_is_white.
WhiteEngine(n) == IF StockfishIsWhite(n) THEN "stockfish" ELSE "reckless"

\* A channel one slot larger than twice the worker count.
CapacityOff == workers * 2 + 1

\* mpsc::channel::<GameCompleted>(args.workers * 2)
Capacity == workers * 2

\* A worker blocked in an engine call counted as having dropped its Sender.
TxAliveUnlessHung(w) == pc[w] \notin {"done", "failed", "hung"}

\* A worker's Sender lives until run_worker returns.
TxAlive(w) == pc[w] \notin {"done", "failed"}

\* rx is dropped when main returns.
RxClosed == mainPc = "done"

\* A receive loop that ends as soon as the senders are gone, buffered
\* messages or not.
ChannelClosedEarly == ~mainTx /\ \A w \in Workers : ~TxAlive(w)

\* rx.recv() returns None: no message buffered and every Sender dropped.
ChannelClosed == chan = << >> /\ ~mainTx /\ \A w \in Workers : ~TxAlive(w)

\* Engines shared by the pool: a quit reaches every worker's pair.
QuitShared(e, w) == [v \in DOMAIN e |-> [sf |-> "quit", rk |-> "quit"]]

\* stockfish.quit(); reckless.quit(): the quit command goes to the worker's own pair.
QuitPair(e, w) == [e EXCEPT ![w] = [sf |-> "quit", rk |-> "quit"]]

\* A restart that quits the engines and forgets to spawn new ones.
RespawnSkipped(e, w) == e

\* UciEngine::new twice (lines 198-201): the worker's handles are fresh engines.
Respawned(e, w) == [e EXCEPT ![w] = [sf |-> "live", rk |-> "live"]]

\* Where the Err arm leaves the worker: back at the loop top when both
\* respawns succeeded, returned with the error otherwise.
AfterRestart(ok) == IF ok THEN "claim" ELSE "failed"

\* The bounded channel accepts a message while fewer than Capacity are buffered.
HasRoom(c) == Len(c) < Capacity

\* Lines 156-159 succeed: the worker owns a fresh engine pair.
SpawnOk(w) ==
    /\ pc[w] = "spawn"
    /\ pc' = [pc EXCEPT ![w] = "claim"]
    /\ eng' = [eng EXCEPT ![w] = [sf |-> "live", rk |-> "live"]]
    /\ UNCHANGED otherVars
    /\ UNCHANGED << workers, total_games, counter, gen, game_num, pending,
                    chan, mainTx, mainPc, mainResult, stats, handed, started,
                    failures, okGames >>

\* Lines 156-159 fail: `?` returns the error to the spawned task.  UciEngine::new
\* fails for stockfish (nothing owned yet) or for reckless (the stockfish handle
\* just created is dropped by the return, no quit sent).
SpawnErr(w) ==
    /\ pc[w] = "spawn"
    /\ pc' = [pc EXCEPT ![w] = "failed"]
    /\ \E which \in EngineNames :
          eng' = [eng EXCEPT ![w] =
                    IF which = "stockfish" THEN [sf |-> "none", rk |-> "none"]
                                           ELSE [sf |-> "dropped", rk |-> "none"]]
    /\ UNCHANGED otherVars
    /\ UNCHANGED << workers, total_games, counter, gen, game_num, pending,
                    chan, mainTx, mainPc, mainResult, stats, handed, started,
                    failures, okGames >>

\* Lines 165-177: claim an index; when it is past the target leave the loop,
\* quit both engines and return Ok(()) (lines 207-210); otherwise pick the
\* colours and call play_game.
Claim(w) ==
    /\ pc[w] = "claim"
    /\ counter \in Indices
    /\ LET n == counter IN
         /\ counter' = FetchAdd(counter)
         /\ handed' = [handed EXCEPT ![n] = @ + 1]
         /\ game_num' = [game_num EXCEPT ![w] = n]
         /\ IF Exhausted(n)
              THEN /\ pc' = [pc EXCEPT ![w] = "done"]
                   /\ eng' = QuitPair(eng, w)
                   /\ UNCHANGED started
              ELSE /\ pc' = [pc EXCEPT ![w] = "play"]
                   /\ started' = [started EXCEPT ![n] = WhiteEngine(n)]
                   /\ UNCHANGED eng
    /\ UNCHANGED otherVars
    /\ UNCHANGED << workers, total_games, gen, pending, chan, mainTx, mainPc,
                    mainResult, stats, failures, okGames >>

\* play_game returned Ok(result): the Ok arm builds the GameCompleted to send.
\* The struct has the fields result and stockfish_is_white; index is history,
\* the index of the game the message reports.
PlayGameOk(w) ==
    /\ pc[w] = "play"
    /\ \E result \in GameResult :
          pending' = [pending EXCEPT ![w] =
                        << [ result |-> result,
                             stockfish_is_white |-> StockfishIsWhite(game_num[w]),
                             index |-> game_num[w] ] >>]
    /\ pc' = [pc EXCEPT ![w] = "send"]
    /\ okGames' = okGames + 1
    /\ UNCHANGED otherVars
    /\ UNCHANGED << workers, total_games, counter, eng, gen, game_num, chan,
                    mainTx, mainPc, mainResult, stats, handed, started,
                    failures >>

\* play_game returned Err and the Err arm (lines 194-201) ran through: both
\* engines are sent quit and both handles are replaced by fresh engines.
PlayGameErr(w) ==
    /\ pc[w] = "play"
    /\ pc' = [pc EXCEPT ![w] = AfterRestart(TRUE)]
    /\ eng' = Respawned(QuitPair(eng, w), w)
    /\ gen' = [gen EXCEPT ![w] = @ + 1]
    /\ failures' = [failures EXCEPT ![w] = @ + 1]
    /\ counter' = ErrArmCounter(counter)
    /\ game_num' = [game_num EXCEPT ![w] = NoGame]
    /\ UNCHANGED otherVars
    /\ UNCHANGED << workers, total_games, pending, chan, mainTx,
                    mainPc, mainResult, stats, handed, started, okGames >>

\* play_game returned Err and a respawn of the Err arm failed: `?` ends the
\* worker.  When reckless fails, the new stockfish is already assigned and is
\* dropped without a quit.
PlayGameErrRespawnErr(w) ==
    /\ pc[w] = "play"
    /\ pc' = [pc EXCEPT ![w] = AfterRestart(FALSE)]
    /\ \E which \in EngineNames :
          eng' = [QuitPair(eng, w) EXCEPT ![w].sf =
                    IF which = "stockfish" THEN "quit" ELSE "dropped"]
    /\ failures' = [failures EXCEPT ![w] = @ + 1]
    /\ counter' = ErrArmCounter(counter)
    /\ UNCHANGED otherVars
    /\ UNCHANGED << workers, total_games, gen, game_num, pending, chan, mainTx,
                    mainPc, mainResult, stats, handed, started, okGames >>

\* Lines 181-191: tx.send(..).await.  It completes when the channel has room,
\* fails when the receiver is gone (break, then lines 207-210), and otherwise
\* leaves the worker suspended.  main keeps rx until it returns, which it
\* does after every Sender is gone, so no send of a run meets a closed rx.
Send(w) ==
    /\ pc[w] = "send"
    /\ IF RxClosed
         THEN /\ pc' = [pc EXCEPT ![w] = "done"]
              /\ eng' = QuitPair(eng, w)
              /\ UNCHANGED << chan, game_num >>
         ELSE /\ HasRoom(chan)
              /\ chan' = chan \o pending[w]
              /\ pc' = [pc EXCEPT ![w] = "claim"]
              /\ game_num' = [game_num EXCEPT ![w] = NoGame]
              /\ UNCHANGED eng
    /\ pending' = [pending EXCEPT ![w] = << >>]
    /\ UNCHANGED otherVars
    /\ UNCHANGED << workers, total_games, counter, gen, mainTx,
                    mainPc, mainResult, stats, handed, started, failures,
                    okGames >>

\* An engine that neither answers nor closes its output: the blocking read
\* of wait_for / get_best_move never returns, in UciEngine::new or in play_game.
Hang(w) ==
    /\ pc[w] \in {"spawn", "play"}
    /\ pc' = [pc EXCEPT ![w] = "hung"]
    /\ UNCHANGED otherVars
    /\ UNCHANGED << workers, total_games, counter, eng, gen, game_num, pending,
                    chan, mainTx, mainPc, mainResult, stats, handed, started,
                    failures, okGames >>

\* play_game returned Err and the handshake wait of a respawn never returns:
\* the old pair was sent quit, the worker stays in the Err arm.
HangInRespawn(w) ==
    /\ pc[w] = "play"
    /\ pc' = [pc EXCEPT ![w] = "hung"]
    /\ eng' = QuitPair(eng, w)
    /\ failures' = [failures EXCEPT ![w] = @ + 1]
    /\ counter' = ErrArmCounter(counter)
    /\ UNCHANGED otherVars
    /\ UNCHANGED << workers, total_games, gen, game_num, pending, chan, mainTx,
                    mainPc, mainResult, stats, handed, started, okGames >>

(* ------------------------------------------------------------------ main *)

\* main keeps its Sender: line 258 left out.
MainSenderKept == TRUE

\* Whether main holds a Sender after `drop(tx)` (line 258).
MainSenderAfterDrop == FALSE

\* Line 258: drop(tx).
DropTx ==
    /\ mainPc = "drop_tx"
    /\ mainTx' = MainSenderAfterDrop
    /\ mainPc' = "recv"
    /\ UNCHANGED otherVars
    /\ UNCHANGED << workers, total_games, counter, pc, eng, gen, game_num,
                    pending, chan, mainResult, stats, handed, started,
                    failures, okGames >>

\* Lines 274-276: one message received and recorded.
Recv ==
    /\ mainPc = "recv"
    /\ chan # << >>
    /\ stats' = Record(stats, Head(chan).result, Head(chan).stockfish_is_white)
    /\ chan' = Tail(chan)
    /\ UNCHANGED otherVars
    /\ UNCHANGED << workers, total_games, counter, pc, eng, gen, game_num,
                    pending, mainTx, mainPc, mainResult, handed, started,
                    failures, okGames >>

\* Lines 274-288: recv returns None, the workers are joined, the summary is
\* printed and main returns Ok(()).
Finish ==
    /\ mainPc = "recv"
    /\ ChannelClosed
    /\ mainPc' = "done"
    /\ mainResult' = "ok"
    /\ UNCHANGED otherVars
    /\ UNCHANGED << workers, total_games, counter, pc, eng, gen, game_num,
                    pending, chan, mainTx, stats, handed, started, failures,
                    okGames >>

(* --------------------------------------------------------- specification *)

\* No message is being recorded a second time.
RecParked ==
    /\ batch = << >>
    /\ statsA = ZeroStats
    /\ nextA = 0
    /\ statsB = ZeroStats
    /\ orderB = << >>

\* What a call returned: the call, Ok or the failure, and the move of an Ok
\* of get_best_move.
Returned(op, kind, move) == [ op |-> op, kind |-> kind, move |-> move ]

\* No UciEngine constructed, no call made.
UciParked ==
    /\ uciPc = "uninit"
    /\ uciOut = "open"
    /\ uciBytes = "none"
    /\ uciLine = << >>
    /\ uciRet = Returned("none", "none", << >>)
    /\ uciSkipped = { }

\* Chess::default(), as far as play_game asks about it.
StartPosition ==
    [ turn |-> "White", is_checkmate |-> FALSE, is_stalemate |-> FALSE,
      is_insufficient_material |-> FALSE, halfmoves |-> 0 ]

\* The state of a GameRunner with its first engine pair before play_game is
\* called, all but max_moves.
GameIdle ==
    /\ gamePc = "idle"
    /\ white = "stockfish"
    /\ position = StartPosition
    /\ moves = << >>
    /\ move_num = 0
    /\ uci_move_str = << >>
    /\ gameRet = "none"
    /\ cmds = [e \in EngineNames |-> << >>]
    /\ owed = [e \in EngineNames |-> 0]
    /\ overlapped = FALSE
    /\ asked = << >>
    /\ applied = << >>
    /\ games = 0
    /\ pair = 0

\* No game is played.
GameParked ==
    /\ max_moves = 0
    /\ GameIdle

\* The locals of print_progress before its first load.
NoSnapshot == [total |-> 0, stockfish_wins |-> 0, reckless_wins |-> 0,
               draws |-> 0]

\* main and the progress task at the creation of the MatchStats, all but the
\* number of games the run was asked for.
ProgIdle ==
    /\ shared = ZeroStats
    /\ mainAt = "recv"
    /\ recordMsg = << >>
    /\ recordAt = 0
    /\ recorded = 0
    /\ progressPc = "tick"
    /\ snap = NoSnapshot
    /\ quiet = TRUE

\* A run asked for no game, not started.
ProgParked ==
    /\ goal = 0
    /\ ProgIdle

\* The state of the orchestrator when main starts.
OrchInit ==
    /\ workers \in 1 .. MaxWorkers
    /\ total_games \in 0 .. MaxGames(workers)
    /\ counter = 0
    /\ pc = [w \in Workers |-> "spawn"]
    /\ eng = [w \in Workers |-> [sf |-> "none", rk |-> "none"]]
    /\ gen = [w \in Workers |-> 0]
    /\ game_num = [w \in Workers |-> NoGame]
    /\ pending = [w \in Workers |-> << >>]
    /\ chan = << >>
    /\ mainTx = TRUE
    /\ mainPc = "drop_tx"
    /\ mainResult = "none"
    /\ stats = ZeroStats
    /\ handed = [i \in Indices |-> 0]
    /\ started = [i \in Indices |-> "none"]
    /\ failures = [w \in Workers |-> 0]
    /\ okGames = 0

\* The orchestrator of a run that plays no game, not started.
OrchParked ==
    /\ OrchInit
    /\ workers = 1
    /\ total_games = 0

Init ==
    /\ OrchInit
    /\ RecParked
    /\ UciParked
    /\ GameParked
    /\ ProgParked

WorkerStep(w) ==
    \/ SpawnOk(w)
    \/ SpawnErr(w)
    \/ Claim(w)
    \/ PlayGameOk(w)
    \/ PlayGameErr(w)
    \/ PlayGameErrRespawnErr(w)
    \/ Send(w)

MainStep == DropTx \/ Recv \/ Finish

Next ==
    \/ \E w \in Workers : SpawnOk(w)
    \/ \E w \in Workers : SpawnErr(w)
    \/ \E w \in Workers : Claim(w)
    \/ \E w \in Workers : PlayGameOk(w)
    \/ \E w \in Workers : PlayGameErr(w)
    \/ \E w \in Workers : PlayGameErrRespawnErr(w)
    \/ \E w \in Workers : Send(w)
    \/ \E w \in Workers : Hang(w)
    \/ \E w \in Workers : HangInRespawn(w)
    \/ DropTx
    \/ Recv
    \/ Finish

Spec == Init /\ [][Next]_vars

\* Every engine call returns: no Hang step.
NextReturning ==
    \/ \E w \in Workers : SpawnOk(w)
    \/ \E w \in Workers : SpawnErr(w)
    \/ \E w \in Workers : Claim(w)
    \/ \E w \in Workers : PlayGameOk(w)
    \/ \E w \in Workers : PlayGameErr(w)
    \/ \E w \in Workers : PlayGameErrRespawnErr(w)
    \/ \E w \in Workers : Send(w)
    \/ DropTx
    \/ Recv
    \/ Finish

\* tokio schedules every task that is ready to run, and every engine call
\* returns one way or the other.
LiveSpec ==
    /\ Init
    /\ [][NextReturning]_vars
    /\ \A w \in 0 .. (MaxWorkers - 1) : WF_vars(w \in Workers /\ WorkerStep(w))
    /\ WF_vars(MainStep)

\* tokio schedules every task that is ready to run; an engine call returns
\* or, when the engine neither answers nor closes its output, never does.
HangSpec ==
    /\ Init
    /\ [][Next]_vars
    /\ \A w \in 0 .. (MaxWorkers - 1) : WF_vars(w \in Workers /\ WorkerStep(w))
    /\ WF_vars(MainStep)

(* -------------------------------------------------------------- helpers *)

\* run_worker has returned, with Ok(()) or with the error of a spawn.
Stopped(w) == pc[w] \in {"done", "failed"}

AllStopped == \A w \in Workers : Stopped(w)

\* The worker left its loop because its claim was past the target.
LeftExhausted(w) == Stopped(w) /\ game_num[w] >= total_games

\* The worker is in an iteration of its loop (or ended in one): it holds
\* the index it claimed.
HoldsIndex(w) == game_num[w] # NoGame

\* Claimed indices past the target.
Overshoot == { i \in Indices : i >= total_games /\ handed[i] > 0 }

\* The engine pair is the one the source plays the next game with.
PairLive(w) == eng[w] = [sf |-> "live", rk |-> "live"]

\* The worker has called play_game and the call has not returned.
InGame(w) == pc[w] = "play" \/ (pc[w] = "hung" /\ HoldsIndex(w) /\ PairLive(w))

RECURSIVE SumTo(_, _)
SumTo(f, n) == IF n < 0 THEN 0 ELSE f[n] + SumTo(f, n - 1)

\* Number of play_game calls of the run that returned Err.
TotalFailures == SumTo(failures, workers - 1)

\* Messages handed to send() and not yet accepted by the channel.
PendingCount == Cardinality({ w \in Workers : pending[w] # << >> })

(* ------------------------------------------------------------------- C1 *)

\* C1: every index is returned by the shared counter to at most one worker
\* (no index is handed out twice, no two workers hold the same index), and
\* no game is ever started for an index >= total_games.
C1_IndexClaimedOnce ==
    /\ \A i \in Indices : handed[i] <= 1
    /\ \A w \in Workers : \A v \in Workers :
          (w # v /\ HoldsIndex(w)) => game_num[w] # game_num[v]
    /\ \A i \in Indices : i >= total_games => started[i] = "none"
    /\ \A w \in Workers : pc[w] \in {"play", "send"} => game_num[w] < total_games

\* Two workers hold different indices below the target while a third claim
\* was discarded or is still to come: both raced on the counter.
C1_Witness ==
    /\ workers = 2
    /\ pc[0] = "play" /\ pc[1] = "play"
    /\ game_num[0] = 1 /\ game_num[1] = 2

(* ------------------------------------------------------------------- C2 *)

\* C2 as stated: once all workers have stopped, exactly `workers` indices
\* >= total_games were claimed and the counter is total_games + workers.
C2_OvershootExactlyW ==
    AllStopped =>
        /\ Cardinality(Overshoot) = workers
        /\ counter = total_games + workers

\* C2 amended: once all workers have stopped, the claimed indices
\* >= total_games are as many as the workers that left the loop on an
\* exhausted counter (one overshooting claim each); that is at most
\* `workers`, and it is exactly `workers`, with the counter at
\* total_games + workers, when no worker was ended by a failed engine spawn.
C2_OvershootPerExhaustedWorker ==
    AllStopped =>
        LET ex == { w \in Workers : LeftExhausted(w) } IN
        /\ Cardinality(Overshoot) = Cardinality(ex)
        /\ Overshoot = { game_num[w] : w \in ex }
        /\ Cardinality(ex) <= workers
        /\ ex # {} => counter = total_games + Cardinality(ex)
        /\ (\A w \in Workers : pc[w] = "done") =>
              /\ Cardinality(Overshoot) = workers
              /\ counter = total_games + workers

\* A drained run in which one worker overshot and the other was ended by a
\* failed spawn, after games were played.
C2_Witness ==
    /\ workers = 2
    /\ AllStopped
    /\ pc[0] = "done" /\ pc[1] = "failed"
    /\ counter = total_games + 1
    /\ total_games >= 2

(* ------------------------------------------------------------------- C3 *)

\* C3: every GameCompleted is recorded exactly once and none is dropped:
\* in every state the games that returned Ok are those recorded plus those
\* buffered or being sent; a failed game adds no message; and when main has
\* emitted the summary games_completed is the number of Ok games.
C3_EveryMessageRecordedOnce ==
    /\ okGames = stats.games_completed + Len(chan) + PendingCount
    /\ \A w \in Workers : (pending[w] # << >>) <=> (pc[w] = "send")
    /\ \A j \in 1 .. Len(chan) : \A k \in 1 .. Len(chan) :
          j # k => chan[j].index # chan[k].index
    /\ mainPc = "done" => stats.games_completed = okGames

\* The summary of a run with two recorded games and one failed game.
C3_Witness ==
    /\ mainPc = "done"
    /\ stats.games_completed = 2
    /\ TotalFailures = 1
    /\ total_games = 3

(* ------------------------------------------------------------------- C4 *)

RunInvariant_C4 ==
    /\ stats.games_completed <= total_games
    /\ okGames + TotalFailures <= total_games
    /\ \A i \in Indices : handed[i] <= 1
    /\ (counter >= total_games) =>
          okGames + TotalFailures
            + Cardinality({ w \in Workers : InGame(w) }) = total_games
    /\ (mainPc = "done" /\ counter >= total_games) =>
          stats.games_completed = total_games - TotalFailures

\* C4: a failed game's index stays consumed: the counter never decreases,
\* no index is claimed twice, the recorded outcomes never exceed
\* total_games, and at the end of a run that claimed every index below
\* total_games they are total_games minus the failed games.
C4_FailedIndexConsumed ==
    /\ [] RunInvariant_C4
    /\ [][counter' >= counter]_vars

\* The end of a run that claimed every index and lost two games to failures.
C4_Witness ==
    /\ mainPc = "done"
    /\ counter >= total_games
    /\ TotalFailures = 2
    /\ stats.games_completed = total_games - 2
    /\ total_games = 3

(* ------------------------------------------------------------------- C5 *)

\* C5 as stated: a worker that has started its loop stops only on an
\* exhausted counter, never because of a failure.
C5_NeverStopsOnFailure ==
    \A w \in Workers :
        (Stopped(w) /\ HoldsIndex(w)) => game_num[w] >= total_games

\* C5 amended: after every failed game the worker sends quit to both of its
\* engines and respawns both; when both respawns succeed it goes on claiming
\* with the fresh pair, and when a respawn fails the worker stops.  A worker
\* that has started its loop stops on a claim below total_games only because
\* a respawn failed.
C5_RestartAndContinue ==
    \A w \in Workers :
        /\ pc[w] \in {"claim", "play", "send"} =>
              PairLive(w) /\ gen[w] = failures[w]
        /\ (Stopped(w) /\ HoldsIndex(w) /\ game_num[w] < total_games) =>
              /\ pc[w] = "failed"
              /\ failures[w] = gen[w] + 1
              /\ eng[w].rk = "quit" /\ eng[w].sf \in {"quit", "dropped"}

\* A worker back in its loop with its second replacement pair while indices
\* are left to claim.
C5_Witness ==
    \E w \in Workers :
        /\ pc[w] = "claim"
        /\ failures[w] = 2 /\ gen[w] = 2
        /\ PairLive(w)
        /\ counter < total_games

(* ------------------------------------------------------------------- C6 *)

\* A step in which worker w fails: a game of w returns Err, or w returns
\* with the error of a spawn.
FailureStep(w) ==
    \/ failures'[w] # failures[w]
    \/ pc[w] # "failed" /\ pc'[w] = "failed"

\* What run_worker of worker v holds: its engines and its loop state.
WorkerState(v) == << pc[v], eng[v], gen[v], game_num[v], pending[v] >>

FaultIsolated ==
    \A w \in Workers : FailureStep(w) =>
        /\ \A v \in Workers \ {w} : WorkerState(v)' = WorkerState(v)
        /\ << counter, chan, mainTx, mainPc, mainResult, stats >>'
             = << counter, chan, mainTx, mainPc, mainResult, stats >>

\* C6: a failing worker's step changes nothing of another worker (engines,
\* loop state), of the counter, of the channel or of main; and once a worker
\* has ended on a failure the others still claim every index below
\* total_games (unless each of them is ended by a spawn failure of its own).
C6_FailureIsolated ==
    /\ [][FaultIsolated]_vars
    /\ [] ( (\E w \in Workers : pc[w] = "failed") =>
              <> ( \/ counter >= total_games
                   \/ \A v \in Workers : pc[v] = "failed" ) )

\* One worker was ended by a failure with indices left; the other one
\* claimed them all and left on the exhausted counter.
C6_Witness ==
    /\ workers = 2
    /\ pc[0] = "failed" /\ game_num[0] = 0
    /\ pc[1] = "done" /\ game_num[1] = total_games
    /\ total_games = 3

(* ------------------------------------------------------------------- C7 *)

\* Every worker was ended by the failure of its initial engine spawn.
NoWorkerConstructed ==
    \A w \in Workers : pc[w] = "failed" /\ ~HoldsIndex(w)

\* C7: when the initial worker set cannot be constructed (every worker's
\* engine spawn fails before any worker succeeds) the run ends in an error
\* outcome, not as a successful run.
C7_SpawnFailureFailsRun ==
    (mainPc = "done" /\ NoWorkerConstructed) => mainResult = "err"

(* ------------------------------------------------------------------- C8 *)

\* Number of games started with the named engine playing White.
StartedAsWhite(e) == Cardinality({ i \in Indices : started[i] = e })

\* C8: the game of index i is played with stockfish as White iff i is even,
\* its GameCompleted carries stockfish_is_white = (i even), and once every
\* index below total_games has been claimed the games started with stockfish
\* as White and as Black differ by at most one.
C8_ColorByParity ==
    /\ \A i \in Indices : started[i] # "none" =>
          (started[i] = "stockfish" <=> i % 2 = 0)
    /\ \A i \in Indices : (i < total_games /\ handed[i] > 0) => started[i] # "none"
    /\ \A w \in Workers : pending[w] # << >> =>
          /\ pending[w][1].index = game_num[w]
          /\ pending[w][1].stockfish_is_white = (game_num[w] % 2 = 0)
          /\ pending[w][1].stockfish_is_white = (started[game_num[w]] = "stockfish")
    /\ \A j \in 1 .. Len(chan) :
          chan[j].stockfish_is_white = (started[chan[j].index] = "stockfish")
    /\ counter >= total_games =>
          /\ StartedAsWhite("stockfish") + StartedAsWhite("reckless") = total_games
          /\ StartedAsWhite("stockfish") - StartedAsWhite("reckless") \in {0, 1}

\* All three indices claimed by two workers; the message of game 1, played
\* with stockfish as Black, is buffered ahead of the message of game 0.
C8_Witness ==
    /\ workers = 2
    /\ total_games = 3
    /\ counter >= total_games
    /\ Len(chan) >= 2
    /\ chan[1].index = 1 /\ ~chan[1].stockfish_is_white
    /\ chan[2].index = 0 /\ chan[2].stockfish_is_white
    /\ started[2] = "stockfish"

(* ------------------------------------------------------------------- C9 *)

\* C9: when every task that can run is scheduled and every engine call
\* returns, main reaches the final summary.
C9_SummaryReached == <> (mainPc = "done")

\* The summary after a run in which every worker sent messages and the
\* aggregator recorded them all.
C9_Witness ==
    /\ mainPc = "done"
    /\ workers = 2
    /\ total_games = 3
    /\ stats.games_completed = 3

(* ------------------------------------------------------------------ C10 *)

\* The worker's send found the channel full: it is suspended.
Suspended(w) == pc[w] = "send" /\ Len(chan) >= 2 * workers

SuspendedStays ==
    \A w \in Workers : Suspended(w) =>
        /\ pc'[w] = "send"
        /\ pending'[w] = pending[w]
        /\ game_num'[w] = game_num[w]

NotDropped ==
    \A w \in Workers : (pc[w] = "send" /\ pc'[w] # "send") =>
        /\ chan' = chan \o pending[w]
        /\ Len(chan') <= 2 * workers

\* C10: the channel never holds more than 2 * workers messages; a worker
\* whose send finds it full stays suspended with its message and claims
\* nothing; a message leaves its send only into the channel, and every send
\* in progress completes: a state with no worker in a send is reached.
C10_Backpressure ==
    /\ [] (Len(chan) <= 2 * workers)
    /\ [][SuspendedStays /\ NotDropped]_vars
    /\ [] ( (\E w \in Workers : pc[w] = "send") =>
              <> (\A w \in Workers : pc[w] # "send") )

\* A worker suspended on a full channel.
C10_Witness ==
    \E w \in Workers :
        /\ Suspended(w)
        /\ Len(chan) = Capacity
        /\ mainPc = "recv"

(* ------------------------------------------- MatchStats: order of record *)

\* GameCompleted { result, stockfish_is_white }
Messages == [ result : GameResult, stockfish_is_white : BOOLEAN ]

RECURSIVE SeqsUpTo(_, _)
\* The sequences over S of length at most n.
SeqsUpTo(S, n) ==
    IF n = 0 THEN { << >> }
    ELSE LET shorter == SeqsUpTo(S, n - 1)
         IN  shorter \cup { Append(q, x) : q \in shorter, x \in S }

InitRecord ==
    /\ OrchParked
    /\ UciParked
    /\ GameParked
    /\ ProgParked
    /\ batch \in SeqsUpTo(Messages, MaxBatch)
    /\ statsA = ZeroStats
    /\ nextA = 0
    /\ statsB = ZeroStats
    /\ orderB = << >>

\* The positions of batch statsB has recorded.
DoneB == { orderB[k] : k \in 1 .. Len(orderB) }

\* stats.record(msg.result, msg.stockfish_is_white) on the first object, for
\* the next message in arrival order.
RecordA ==
    /\ nextA < Len(batch)
    /\ statsA' = Record(statsA, batch[nextA + 1].result,
                                batch[nextA + 1].stockfish_is_white)
    /\ nextA' = nextA + 1
    /\ UNCHANGED << batch, statsB, orderB >>
    /\ UNCHANGED << orchVars, uciVars, gameVars, progVars >>

\* The same call on the second object, for any message not recorded yet.
RecordB(i) ==
    /\ i \in (1 .. Len(batch)) \ DoneB
    /\ statsB' = Record(statsB, batch[i].result, batch[i].stockfish_is_white)
    /\ orderB' = Append(orderB, i)
    /\ UNCHANGED << batch, statsA, nextA >>
    /\ UNCHANGED << orchVars, uciVars, gameVars, progVars >>

NextRecord ==
    \/ RecordA
    \/ \E i \in 1 .. MaxBatch : RecordB(i)

RecordSpec == InitRecord /\ [][NextRecord]_vars

\* Number of positions in P that hold message m.
CountIn(P, m) == Cardinality({ i \in P : batch[i] = m })

\* Both objects have recorded the same multiset of messages.
SameMultiset ==
    \A m \in Messages : CountIn(1 .. nextA, m) = CountIn(DoneB, m)

\* C11: two MatchStats objects that recorded the same multiset of
\* GameCompleted messages hold the same eight counters, whatever the order
\* in which each of them recorded the messages.
C11_OrderIndependent == SameMultiset => statsA = statsB

\* Three different messages, all recorded by both objects, by the second
\* one in the reverse of the arrival order.
C11_Witness ==
    /\ Len(batch) = 3
    /\ Cardinality({ batch[i] : i \in 1 .. 3 }) = 3
    /\ \E i \in 1 .. 3 : batch[i].result = "Draw"
    /\ nextA = 3
    /\ orderB = << 3, 2, 1 >>

(* ------------------------------------------------------------------ C20 *)

\* The engine handles worker w holds that were never sent quit.
Unquit(w) ==
    { e \in {"sf", "rk"} : eng[w][e] \in {"live", "dropped"} }

\* C20: a worker that has stopped, for whatever reason (counter exhausted,
\* receiver closed, or a failure that ended it), has sent quit to both
\* engine processes it owned: no engine of a stopped worker is left without
\* a quit.
C20_QuitOnStop ==
    \A w \in Workers : Stopped(w) => Unquit(w) = { }

(* ------------------------------------------------- UciEngine: line text *)

\* A line of engine output is a sequence of pieces of text.  A piece is a
\* whitespace character or a word without whitespace; adjacent words run
\* together ("bestmove" followed by "e2e4" is the text bestmovee2e4).
Whitespace == { " ", "\t" }

Words == { "bestmove", "uciok", "readyok", "e2e4" }

Lines == SeqsUpTo(Words \cup Whitespace, MaxLineLen)

RECURSIVE TrimStart(_)
\* str::trim_start
TrimStart(l) ==
    IF l # << >> /\ Head(l) \in Whitespace THEN TrimStart(Tail(l)) ELSE l

RECURSIVE TrimEnd(_)
\* str::trim_end
TrimEnd(l) ==
    IF l # << >> /\ l[Len(l)] \in Whitespace
      THEN TrimEnd(SubSeq(l, 1, Len(l) - 1))
      ELSE l

\* str::trim, as in `line.trim()`: this also removes the line terminator.
Trim(l) == TrimEnd(TrimStart(l))

\* str::strip_prefix: the Option is a sequence of no or one element.
StripPrefix(l, prefix) ==
    IF Len(l) >= Len(prefix) /\ SubSeq(l, 1, Len(prefix)) = prefix
      THEN << SubSeq(l, Len(prefix) + 1, Len(l)) >>
      ELSE << >>

RECURSIVE WordLen(_)
\* Length of the run of non-whitespace pieces l starts with.
WordLen(l) ==
    IF l = << >> \/ Head(l) \in Whitespace THEN 0 ELSE 1 + WordLen(Tail(l))

RECURSIVE SplitWhitespace(_)
\* str::split_whitespace: the tokens of l, in order.
SplitWhitespace(l) ==
    LET t == TrimStart(l)
    IN  IF t = << >> THEN << >>
        ELSE << SubSeq(t, 1, WordLen(t)) >>
               \o SplitWhitespace(SubSeq(t, WordLen(t) + 1, Len(t)))

\* The literal of line 112: the keyword and one space.
BestMovePrefix == << "bestmove", " " >>

\* A scan that takes the last token of the announcement, the ponder move.
ScanLineLastToken(l) ==
    LET rest == StripPrefix(Trim(l), BestMovePrefix)
    IN  IF rest = << >>
          THEN [ kind |-> "continue", move |-> << >> ]
          ELSE LET tokens == SplitWhitespace(rest[1])
               IN  IF tokens = << >>
                     THEN [ kind |-> "ProtocolViolation", move |-> << >> ]
                     ELSE [ kind |-> "ok", move |-> tokens[Len(tokens)] ]

\* Lines 109-116, the body of the loop of get_best_move for one line read:
\* keep reading, return the move, or fail with "Empty bestmove".
ScanLine(l) ==
    LET rest == StripPrefix(Trim(l), BestMovePrefix)
    IN  IF rest = << >>
          THEN [ kind |-> "continue", move |-> << >> ]
          ELSE LET tokens == SplitWhitespace(rest[1])
               IN  IF tokens = << >>
                     THEN [ kind |-> "ProtocolViolation", move |-> << >> ]
                     ELSE [ kind |-> "ok", move |-> tokens[1] ]

\* Lines 64-68, the test of wait_for for one line read.
IsExpected(l, expected) == Trim(l) = << expected >>

(* ---------------------------------------------------- UciEngine: calls *)

\* The blocking reads: wait_for("uciok") in new, wait_for("readyok") in
\* new_game, the loop of get_best_move.
Reading == { "wait_uciok", "wait_readyok", "wait_bestmove" }

\* The call a blocking read belongs to.
CallOf(p) ==
    CASE p = "wait_uciok"   -> "new"
      [] p = "wait_readyok" -> "new_game"
      [] OTHER              -> "get_best_move"

\* Where the client is after a call returned: new returns the engine or
\* nothing, the other calls leave the engine with its owner.
AfterCall(op, kind) ==
    IF op = "new" /\ kind # "ok" THEN "failed" ELSE "ready"

\* send (lines 47-53): the write succeeds, or fails once the process has
\* closed its end.
SendOutcomes == IF uciOut = "closed" THEN { "ok", "io" } ELSE { "ok" }

\* The first statements of a call: its commands are sent, then the call
\* reads (or returns, when it has nothing to read or the send failed).
Call(op, reading) ==
    /\ uciBytes' = "none"
    /\ uciLine' = << >>
    /\ uciSkipped' = { }
    /\ \E sent \in SendOutcomes :
          IF sent = "ok" /\ reading # "none"
            THEN /\ uciPc' = reading
                 /\ uciRet' = Returned(op, "pending", << >>)
            ELSE /\ uciPc' = IF op = "quit" THEN "quit" ELSE AfterCall(op, sent)
                 /\ uciRet' = Returned(op, sent, << >>)
    /\ UNCHANGED uciOut
    /\ UNCHANGED << orchVars, recVars, gameVars, progVars >>

\* Line 26: the process cannot be started.
UciSpawnErr ==
    /\ uciPc = "uninit"
    /\ uciPc' = "failed"
    /\ uciRet' = Returned("new", "EngineSpawnError", << >>)
    /\ UNCHANGED << uciOut, uciBytes, uciLine, uciSkipped >>
    /\ UNCHANGED << orchVars, recVars, gameVars, progVars >>

\* Lines 22-41: spawn, send "uci", wait_for("uciok").
UciNew ==
    /\ uciPc = "uninit"
    /\ Call("new", "wait_uciok")

\* Lines 76-80: send "ucinewgame", send "isready", wait_for("readyok").
UciNewGame ==
    /\ uciPc = "ready"
    /\ Call("new_game", "wait_readyok")

\* Lines 99-102: send "go movetime ..", then the loop.
UciGetBestMove ==
    /\ uciPc = "ready"
    /\ Call("get_best_move", "wait_bestmove")

\* Lines 121-123: send "quit".
UciQuit ==
    /\ uciPc = "ready"
    /\ Call("quit", "none")

\* A read that returned zero bytes is taken for a line without text.
ZeroBytesIgnored(bytes_read) == FALSE

\* Lines 61 and 106: `bytes_read == 0`.
ZeroBytesIsClosed(bytes_read) == bytes_read = "eof"

\* What the loop of the current call does with the line l just read.
Handle(l) ==
    IF uciPc = "wait_bestmove"
      THEN ScanLine(l)
      ELSE [ kind |-> IF IsExpected(l, IF uciPc = "wait_uciok"
                                         THEN "uciok" ELSE "readyok")
                        THEN "ok" ELSE "continue",
             move |-> << >> ]

\* What kind of line l is, by its whitespace-delimited tokens: the keyword
\* bestmove alone, the keyword followed by a space and a token, or any other
\* line (the lines with another first token, the empty line, and the
\* keyword followed by a tab instead of a space).
LineKind(l) ==
    LET tokens == SplitWhitespace(l)
    IN  CASE tokens = << << "bestmove" >> >> -> "keyword alone"
          [] /\ Len(tokens) > 1
             /\ tokens[1] = << "bestmove" >>
             /\ TrimStart(l)[2] = " "        -> "keyword, space, token"
          [] OTHER                           -> "other"

\* The bookkeeping of a read of the line l with outcome h.
AfterRead(l, h) ==
    IF h.kind = "continue"
      THEN /\ uciSkipped' =
                IF uciPc = "wait_bestmove"
                  THEN uciSkipped \cup { LineKind(l) }
                  ELSE uciSkipped
           /\ UNCHANGED << uciPc, uciRet, uciLine, uciOut >>
           /\ UNCHANGED << orchVars, recVars, gameVars, progVars >>
      ELSE /\ uciPc' = AfterCall(CallOf(uciPc), h.kind)
           /\ uciRet' = Returned(CallOf(uciPc), h.kind, h.move)
           /\ uciLine' = l
           /\ UNCHANGED << uciSkipped, uciOut >>
           /\ UNCHANGED << orchVars, recVars, gameVars, progVars >>

\* read_line returns a line the engine wrote (lines 60-68, 105-116).
UciReadLine(l) ==
    /\ uciPc \in Reading
    /\ uciOut = "open"
    /\ uciBytes' = "line"
    /\ AfterRead(l, Handle(l))

\* read_line returns Ok(0): the engine's output is closed (lines 60-63,
\* 105-108).
UciReadEof ==
    /\ uciPc \in Reading
    /\ uciOut = "closed"
    /\ uciBytes' = "eof"
    /\ AfterRead(<< >>, IF ZeroBytesIsClosed("eof")
                          THEN [ kind |-> "EngineDisconnected", move |-> << >> ]
                          ELSE Handle(<< >>))

\* The engine process closes its output (it exits, or it crashes).
EngineCloses ==
    /\ uciOut = "open"
    /\ uciOut' = "closed"
    /\ UNCHANGED << uciPc, uciBytes, uciLine, uciRet, uciSkipped >>
    /\ UNCHANGED << orchVars, recVars, gameVars, progVars >>

InitUci ==
    /\ OrchParked
    /\ RecParked
    /\ UciParked
    /\ GameParked
    /\ ProgParked

NextUci ==
    \/ UciSpawnErr
    \/ UciNew
    \/ UciNewGame
    \/ UciGetBestMove
    \/ UciQuit
    \/ \E l \in Lines : UciReadLine(l)
    \/ UciReadEof
    \/ EngineCloses

UciSpec == InitUci /\ [][NextUci]_vars

(* -------------------------------------------------------- C14, C15, C16 *)

C15_EmptyAnnouncementFails == "keyword alone" \notin uciSkipped

\* C16: a blocking read that returns zero bytes because the engine closed
\* its output ends its call at once with EngineDisconnected, in new, in
\* new_game and in get_best_move; a new whose read meets the closed output
\* fails, it does not go on waiting.
C16_ClosedOutputFails ==
    uciBytes = "eof" =>
        /\ uciPc \notin Reading
        /\ uciRet.kind = "EngineDisconnected"
        /\ uciRet.op = "new" => uciPc = "failed"

\* new failed with EngineDisconnected on its first read: the process closed
\* its output before it wrote a line.
C16_Witness ==
    /\ uciRet = Returned("new", "EngineDisconnected", << >>)
    /\ uciBytes = "eof"
    /\ uciPc = "failed"

(* ------------------------------------------------ GameRunner: play_game *)

\* The half-move clock value of the fifty-move rule.
HalfmoveLimit == 100

Colours == { "White", "Black" }

Opponent(colour) == IF colour = "White" THEN "Black" ELSE "White"

\* The engine play_game was called with as `black`.
black == IF white = "stockfish" THEN "reckless" ELSE "stockfish"

\* The engine of the side to move (lines 44-50).
EngineOf(colour) == IF colour = "White" THEN white ELSE black

\* The lines an engine writes in a game: readyok, a diagnostic line, two
\* announcements of a move (one with a ponder move), the resignation
\* sentinel, an announcement without a move, a token that is no move.
GameLines ==
    { << "readyok" >>,
      << "info", " ", "depth" >>,
      << "bestmove", " ", "e2e4" >>,
      << "bestmove", " ", "e7e5", " ", "ponder", " ", "e2e4" >>,
      << "bestmove", " ", "(none)" >>,
      << "bestmove" >>,
      << "bestmove", " ", "zz" >> }

\* uci_move_str.parse::<UciMove>() succeeds (line 62-64).
ParsesAsUciMove(token) == token \in { << "e2e4" >>, << "e7e5" >> }

\* What the rules library may report of the position after a move of the
\* side `colour`: the other side is to move; a checkmate is neither a
\* stalemate nor a position of insufficient material; the clock is 0 after
\* a pawn move or a capture and can be any value otherwise.
PositionsAfter(colour) ==
    { q \in [ turn : { Opponent(colour) },
              is_checkmate : BOOLEAN,
              is_stalemate : BOOLEAN,
              is_insufficient_material : BOOLEAN,
              halfmoves : { 0, HalfmoveLimit - 1, HalfmoveLimit } ] :
        q.is_checkmate => ~q.is_stalemate /\ ~q.is_insufficient_material }

\* A new_game that asks isready before it sends ucinewgame.
NewGameCommandsReadyFirst == << << "isready" >>, << "ucinewgame" >> >>

\* The commands of new_game (uci.rs 77-78), in the order they are sent.
NewGameCommands == << << "ucinewgame" >>, << "isready" >> >>

RECURSIVE Join(_, _)
\* [String]::join
Join(tokens, sep) ==
    IF tokens = << >> THEN << >>
    ELSE IF Len(tokens) = 1 THEN tokens[1]
    ELSE tokens[1] \o << sep >> \o Join(Tail(tokens), sep)

\* A set_position that never sends the move list.
PositionCommandBare(ms) == << "position", " ", "startpos" >>

\* The command of set_position (uci.rs 87-91).
PositionCommand(ms) ==
    IF ms = << >>
      THEN << "position", " ", "startpos" >>
      ELSE << "position", " ", "startpos", " ", "moves", " " >> \o Join(ms, " ")

\* The command of get_best_move (uci.rs 100).
GoCommand == << "go", " ", "movetime", " ", "movetime_ms" >>

\* The UCI commands an engine answers with a line the client waits for.
Expects(command) == command[1] \in { "uci", "isready", "go" }

RECURSIVE OwedAfter(_, _)
\* The answers an engine owes after the commands were written to
\* it, when it owed n before.
OwedAfter(n, commands) ==
    IF commands = << >> THEN n
    ELSE OwedAfter(IF Expects(Head(commands)) THEN n + 1 ELSE n, Tail(commands))

RECURSIVE Overlaps(_, _)
\* One of the commands is written while the engine owes an answer.
Overlaps(n, commands) ==
    IF commands = << >> THEN FALSE
    ELSE n > 0 \/ Overlaps(IF Expects(Head(commands)) THEN n + 1 ELSE n, Tail(commands))

\* The commands that were written when the send of command k + 1
\* failed; all of them when k is their number.
Written(commands, k) == SubSeq(commands, 1, k)

\* The engines when the commands Written(commands, k) were written to engine e,
\* the engines owing ow before.
SendTo(e, commands, k, cm, ow) ==
    /\ cmds' = [cm EXCEPT ![e] = @ \o Written(commands, k)]
    /\ owed' = [ow EXCEPT ![e] = OwedAfter(@, Written(commands, k))]
    /\ overlapped' = (overlapped \/ Overlaps(ow[e], Written(commands, k)))

\* play_game returns.
Return(ret) ==
    /\ gamePc' = "returned"
    /\ gameRet' = ret

\* play_game goes on into a blocking read.
WaitIn(call) ==
    /\ gamePc' = call
    /\ gameRet' = "none"

\* The loop test of `for move_num in 0..=max_moves`.
LoopRunsInclusive(n) == n <= max_moves

\* The loop test of `for move_num in 0..self.max_moves` (line 40).
LoopRuns(n) == n < max_moves

\* Lines 40-50 and 103-108, the top of iteration n with the position pos
\* and the move list ms: the side to move is sent the position and the move
\* request, or the loop is over and the game is a Draw.
Enter(n, pos, ms, ow, k) ==
    /\ move_num' = n
    /\ position' = pos
    /\ moves' = ms
    /\ IF LoopRuns(n)
         THEN /\ SendTo(EngineOf(pos.turn), << PositionCommand(ms), GoCommand >>,
                        k, cmds, ow)
              /\ IF k = 2
                   THEN /\ WaitIn("get_best_move")
                        /\ asked' = Append(asked, pos.turn)
                   ELSE /\ Return("io")
                        /\ UNCHANGED asked
         ELSE /\ k = 2
              /\ Return("Draw")
              /\ owed' = ow
              /\ UNCHANGED << cmds, overlapped, asked >>

\* The previous call returned Err: run_worker has replaced both engines
\* (main.rs 194-201).
PairReplaced == gameRet \notin GameResult \cup { "none" }

\* Lines 33-37: play_game is called with engine w as white; white.new_game()
\* sends its commands and waits for readyok.
StartGame(w, k) ==
    /\ gamePc \in { "idle", "returned" }
    /\ games < MaxGamesInRow
    /\ games' = games + 1
    /\ pair' = IF PairReplaced THEN pair + 1 ELSE pair
    /\ white' = w
    /\ position' = StartPosition
    /\ moves' = << >>
    /\ move_num' = 0
    /\ uci_move_str' = << >>
    /\ asked' = << >>
    /\ applied' = << >>
    /\ SendTo(w, NewGameCommands, k,
              [e \in EngineNames |-> << >>],
              IF PairReplaced THEN [e \in EngineNames |-> 0] ELSE owed)
    /\ IF k = 2 THEN WaitIn("new_game_white") ELSE Return("io")
    /\ UNCHANGED max_moves
    /\ UNCHANGED << orchVars, recVars, uciVars, progVars >>

\* Lines 37-38: white's wait_for reads readyok; black.new_game() sends its
\* commands and waits.
WhiteReady(l, k) ==
    /\ gamePc = "new_game_white"
    /\ IsExpected(l, "readyok")
    /\ SendTo(black, NewGameCommands, k, cmds, [owed EXCEPT ![white] = @ - 1])
    /\ IF k = 2 THEN WaitIn("new_game_black") ELSE Return("io")
    /\ UNCHANGED << max_moves, white, position, moves, move_num, uci_move_str,
                    asked, applied, games, pair >>
    /\ UNCHANGED << orchVars, recVars, uciVars, progVars >>

\* Lines 38-50: black's wait_for reads readyok; the loop is entered.
BlackReady(l, k) ==
    /\ gamePc = "new_game_black"
    /\ IsExpected(l, "readyok")
    /\ Enter(0, position, moves, [owed EXCEPT ![black] = @ - 1], k)
    /\ UNCHANGED << max_moves, white, uci_move_str, applied, games, pair >>
    /\ UNCHANGED << orchVars, recVars, uciVars, progVars >>

\* Line 53: `uci_move_str == "(none)" || uci_move_str.is_empty()`.
Resigns(token) == token = << "(none)" >> \/ token = << >>

\* A resignation credited to the side that resigned.
ResignResultOwnSide(turn) == IF turn = "White" THEN "WhiteWins" ELSE "BlackWins"

\* Lines 54-58: the result when the side `turn` has no move.
ResignResult(turn) == IF turn = "White" THEN "BlackWins" ELSE "WhiteWins"

\* The checks of the game end with the half-move clock tested first.
TerminalClockFirst(pos) ==
    IF pos.halfmoves >= HalfmoveLimit THEN "Draw"
    ELSE IF pos.is_checkmate
      THEN IF pos.turn = "White" THEN "BlackWins" ELSE "WhiteWins"
    ELSE IF pos.is_stalemate \/ pos.is_insufficient_material THEN "Draw"
    ELSE "none"

\* Lines 83-100: the result the position after a move ends the game with,
\* "none" when the game goes on.
Terminal(pos) ==
    IF pos.is_checkmate
      THEN IF pos.turn = "White" THEN "BlackWins" ELSE "WhiteWins"
    ELSE IF pos.is_stalemate \/ pos.is_insufficient_material THEN "Draw"
    ELSE IF pos.halfmoves >= HalfmoveLimit THEN "Draw"
    ELSE "none"

\* play_game returns from inside an iteration, the answer of the engine
\* asked having been read.
Stop(ret) ==
    /\ Return(ret)
    /\ owed' = [owed EXCEPT ![EngineOf(position.turn)] = @ - 1]
    /\ UNCHANGED << position, moves, move_num, cmds, overlapped, asked, applied >>

\* Lines 46-100: get_best_move reads the line l that ends its loop.  The
\* move is a resignation, or is parsed, converted (legal: to_move succeeds),
\* applied (played: position.play succeeds, giving the position next) and
\* pushed; the game ends there or goes into the next iteration.
BestMove(l, legal, played, next, k) ==
    /\ gamePc = "get_best_move"
    /\ LET h == ScanLine(l)
       IN  /\ h.kind # "continue"
           /\ IF h.kind # "ok"
                THEN /\ Stop(h.kind)
                     /\ UNCHANGED uci_move_str
                ELSE /\ uci_move_str' = << h.move >>
                     /\ IF Resigns(h.move)
                          THEN Stop(ResignResult(position.turn))
                        ELSE IF ~ParsesAsUciMove(h.move)
                          THEN Stop("InvalidMove")
                        ELSE IF ~legal
                          THEN Stop("IllegalMove")
                        ELSE IF ~played
                          THEN Stop("GameApplyError")
                        ELSE /\ applied' = Append(applied, h.move)
                             /\ IF Terminal(next) # "none"
                                  THEN /\ Return(Terminal(next))
                                       /\ position' = next
                                       /\ moves' = Append(moves, h.move)
                                       /\ owed' = [owed EXCEPT
                                                    ![EngineOf(position.turn)] = @ - 1]
                                       /\ UNCHANGED << move_num, cmds,
                                                       overlapped, asked >>
                                  ELSE Enter(move_num + 1, next,
                                             Append(moves, h.move),
                                             [owed EXCEPT
                                               ![EngineOf(position.turn)] = @ - 1],
                                             k)
    /\ UNCHANGED << max_moves, white, games, pair >>
    /\ UNCHANGED << orchVars, recVars, uciVars, progVars >>

\* The blocking read play_game waits in returns zero bytes: the call fails
\* with "closed unexpectedly" and `?` returns it from play_game.
ReadClosed ==
    /\ gamePc \in { "new_game_white", "new_game_black", "get_best_move" }
    /\ Return("EngineDisconnected")
    /\ UNCHANGED << max_moves, white, position, moves, move_num, uci_move_str,
                    cmds, owed, overlapped, asked, applied, games, pair >>
    /\ UNCHANGED << orchVars, recVars, uciVars, progVars >>

InitGame ==
    /\ OrchParked
    /\ RecParked
    /\ UciParked
    /\ ProgParked
    /\ max_moves \in 0 .. MaxPlies
    /\ GameIdle

\* A line the loop of a blocking read discards leaves the state as it is.
NextGame ==
    \/ \E w \in EngineNames, k \in 0 .. 2 : StartGame(w, k)
    \/ \E l \in GameLines, k \in 0 .. 2 : WhiteReady(l, k)
    \/ \E l \in GameLines, k \in 0 .. 2 : BlackReady(l, k)
    \/ \E l \in GameLines, legal \in BOOLEAN, played \in BOOLEAN,
          next \in PositionsAfter(position.turn), k \in 0 .. 2 :
            BestMove(l, legal, played, next, k)
    \/ ReadClosed

GameSpec == InitGame /\ [][NextGame]_vars

(* ----------------------------------------------- C12, C13, C17, C18, C19 *)

\* The ways play_game returns Err.
GameErrors ==
    { "io", "EngineDisconnected", "ProtocolViolation", "InvalidMove",
      "IllegalMove", "GameApplyError" }

\* The colour asked for the move of the last request.
LastAsked == asked[Len(asked)]

\* C12: when the get_best_move of the side to move returns "(none)" or an
\* empty move, play_game returns at once with the win of the other side and
\* applies no move for that request: BlackWins when White is the side asked,
\* WhiteWins when Black is, on the first move as on any other.
C12_ResignLoses ==
    (uci_move_str # << >> /\ uci_move_str[1] \in { << "(none)" >>, << >> }) =>
        /\ gamePc = "returned"
        /\ gameRet = IF LastAsked = "White" THEN "BlackWins" ELSE "WhiteWins"
        /\ Len(applied) = Len(asked) - 1
        /\ moves = applied
        /\ position.turn = LastAsked

\* Black's engine answers its first move request with "(none)": WhiteWins.
C12_Witness ==
    /\ asked = << "White", "Black" >>
    /\ uci_move_str = << << "(none)" >> >>
    /\ gameRet = "WhiteWins"
    /\ Len(applied) = 1

\* The position is none of the game ends play_game tests for.
NoTerminalCondition(pos) ==
    /\ ~pos.is_checkmate
    /\ ~pos.is_stalemate
    /\ ~pos.is_insufficient_material
    /\ pos.halfmoves < HalfmoveLimit

\* C13: play_game requests at most max_moves moves from the two engines
\* together; when max_moves moves were applied without a game end, a
\* resignation or an error, it has returned Draw; with max_moves = 0 that
\* is so before any move is requested.
C13_BoundedByMaxMoves ==
    /\ Len(asked) <= max_moves
    /\ ( /\ gamePc \in { "get_best_move", "returned" }
         /\ gameRet \notin GameErrors
         /\ Len(applied) = max_moves
         /\ NoTerminalCondition(position) ) =>
            /\ gamePc = "returned"
            /\ gameRet = "Draw"
            /\ Len(asked) = max_moves

\* max_moves = MaxPlies moves were requested and applied, no game end among
\* them: Draw.
C13_Witness ==
    /\ max_moves = MaxPlies
    /\ Len(asked) = MaxPlies
    /\ Len(applied) = MaxPlies
    /\ NoTerminalCondition(position)
    /\ gamePc = "returned"
    /\ gameRet = "Draw"

\* The result that is the win of the side that made the last applied move.
MoverWins == IF asked[Len(applied)] = "White" THEN "WhiteWins" ELSE "BlackWins"

\* C17: after each applied move the game end is tested in the order
\* checkmate (the side that just moved wins), stalemate or insufficient
\* material (Draw), half-move clock >= 100 (Draw): a checkmate is a win of
\* the mover whatever the clock, any other game end is a Draw, and the game
\* goes on only from a position that is no game end.
C17_TerminalOrder ==
    Len(applied) > 0 =>
        /\ position.is_checkmate =>
              gamePc = "returned" /\ gameRet = MoverWins
        /\ (~position.is_checkmate /\ ~NoTerminalCondition(position)) =>
              gamePc = "returned" /\ gameRet = "Draw"
        /\ gamePc = "get_best_move" => NoTerminalCondition(position)

\* White's first move gives checkmate and brings the clock to 100: White
\* wins.
C17_Witness ==
    /\ Len(applied) = 1
    /\ position.is_checkmate
    /\ position.halfmoves = HalfmoveLimit
    /\ gamePc = "returned"
    /\ gameRet = "WhiteWins"

\* The engine whose output the client is reading, if any.
ReadFrom ==
    CASE gamePc = "new_game_white" -> { white }
      [] gamePc = "new_game_black" -> { black }
      [] gamePc = "get_best_move"  -> { EngineOf(position.turn) }
      [] OTHER                     -> { }

\* C18: an engine owes at most one answer at any time, no command is
\* written to an engine that owes an answer, an engine owes an answer only
\* while the client reads from it (or the call has failed, after which the
\* pair is replaced), and the pair play_game is called with next, after a
\* game that returned Ok, owes nothing.
C18_OneExchangeInFlight ==
    /\ \A e \in EngineNames : owed[e] \in { 0, 1 }
    /\ ~overlapped
    /\ \A e \in EngineNames :
          owed[e] = 1 => (e \in ReadFrom \/ gameRet \in GameErrors)
    /\ (gamePc = "idle" \/ gameRet \in GameResult) =>
          \A e \in EngineNames : owed[e] = 0

\* The second game on the same pair is under way: the side to move has been
\* asked, the other engine owes nothing.
C18_Witness ==
    /\ games = 2
    /\ pair = 0
    /\ gamePc = "get_best_move"
    /\ owed[EngineOf(position.turn)] = 1
    /\ owed[EngineOf(Opponent(position.turn))] = 0

\* The positions in the commands of engine e of its move requests.
Requests(e) ==
    { i \in 1 .. Len(cmds[e]) : SplitWhitespace(cmds[e][i])[1] = << "go" >> }

\* The number of moves applied before the request at position i of the
\* commands of engine e: White is asked at the even plies, Black at the odd.
PlyOf(e, i) ==
    LET nth == Cardinality({ j \in Requests(e) : j <= i })
    IN  IF e = white THEN 2 * nth - 2 ELSE 2 * nth - 1

\* The tokens of a position command that carries the tokens ms.
PositionTokens(ms) ==
    IF ms = << >>
      THEN << << "position" >>, << "startpos" >> >>
      ELSE << << "position" >>, << "startpos" >>, << "moves" >> >> \o ms

\* C19: in the commands of each engine every move request comes right after
\* a position command that carries the tokens of the moves applied so far,
\* in order, and the bare start position when there are none; the move list
\* holds the applied moves only; the sides are asked in the order White,
\* Black, White, ...
C19_PositionBeforeRequest ==
    /\ \A e \in EngineNames : \A i \in Requests(e) :
          /\ i > 1
          /\ PlyOf(e, i) <= Len(applied)
          /\ SplitWhitespace(cmds[e][i - 1]) =
                PositionTokens(SubSeq(applied, 1, PlyOf(e, i)))
    /\ moves = applied
    /\ \A n \in 1 .. Len(asked) :
          asked[n] = IF n % 2 = 1 THEN "White" ELSE "Black"

\* White is asked for its second move: its position command carries the
\* two moves applied, in order.
C19_Witness ==
    /\ asked = << "White", "Black", "White" >>
    /\ applied = << << "e2e4" >>, << "e7e5" >> >>
    /\ gamePc = "get_best_move"
    /\ cmds[white][Len(cmds[white])] = GoCommand
    /\ cmds[white][Len(cmds[white]) - 1] =
          << "position", " ", "startpos", " ", "moves", " ", "e2e4", " ", "e7e5" >>

(* ------------------------------------------------------------------ C21 *)

\* The worker waits for a line of an engine that neither writes it nor
\* closes its output.
Hung(w) == pc[w] = "hung"

\* A blocked worker stays as it is.
HungStays ==
    \A w \in Workers : Hung(w) =>
        /\ WorkerState(w)' = WorkerState(w)
        /\ TxAlive(w)'

\* C21: a worker whose engine never writes the awaited line and never
\* closes its output stays blocked for good: it claims no index, sends no
\* message and keeps its Sender, so main never reaches the summary; the
\* other workers go on and every index below total_games is claimed (unless
\* each of them is blocked or ended by an engine of its own).
C21_HungWorkerBlocks ==
    /\ [][HungStays]_vars
    /\ [] ((\E w \in Workers : Hung(w)) => mainPc # "done")
    /\ [] ( (\E w \in Workers : Hung(w)) =>
              <> ( \/ counter >= total_games
                   \/ \A v \in Workers : pc[v] \in {"hung", "failed"} ) )

\* One worker is blocked in its first game; the other one played the two
\* other games and left on the exhausted counter; main has recorded both
\* games and waits for more.
C21_Witness ==
    /\ workers = 2
    /\ total_games = 3
    /\ Hung(0) /\ game_num[0] = 0
    /\ pc[1] = "done"
    /\ chan = << >>
    /\ stats.games_completed = 2
    /\ mainPc = "recv"

(* ------------------------------------------------- MatchStats, shared *)

\* Number of messages main receives at most.
MaxRecords == 3

\* The counters of a MatchStats.
Counters == DOMAIN ZeroStats

\* A record that increments games_completed before the counters of the
\* outcome.
IncrementsCompletedFirst(m) ==
    << "games_completed" >> \o
    ( CASE m.result = "WhiteWins" /\ m.stockfish_is_white ->
             << "stockfish_wins", "stockfish_white_wins" >>
      []   m.result = "WhiteWins" /\ ~m.stockfish_is_white ->
             << "reckless_wins", "reckless_white_wins" >>
      []   m.result = "BlackWins" /\ m.stockfish_is_white ->
             << "reckless_wins", "reckless_black_wins" >>
      []   m.result = "BlackWins" /\ ~m.stockfish_is_white ->
             << "stockfish_wins", "stockfish_black_wins" >>
      []   OTHER ->
             << "draws" >> )

\* MatchStats::record, call by call: the counters its fetch_add calls
\* increment for message m, in the order it makes them.
Increments(m) ==
    ( CASE m.result = "WhiteWins" /\ m.stockfish_is_white ->
             << "stockfish_wins", "stockfish_white_wins" >>
      []   m.result = "WhiteWins" /\ ~m.stockfish_is_white ->
             << "reckless_wins", "reckless_white_wins" >>
      []   m.result = "BlackWins" /\ m.stockfish_is_white ->
             << "reckless_wins", "reckless_black_wins" >>
      []   m.result = "BlackWins" /\ ~m.stockfish_is_white ->
             << "stockfish_wins", "stockfish_black_wins" >>
      []   OTHER ->
             << "draws" >> )
    \o << "games_completed" >>

\* print_progress has made its first load and not its last one.
Loading == progressPc \in {"stockfish_wins", "reckless_wins", "draws"}

\* `rx.recv().await` returns Some(msg): every message is the game of one
\* claimed index, so there are at most `total_games` of them.
LoopRecv(m) ==
    /\ mainAt = "recv"
    /\ recordMsg = << >>
    /\ recorded < goal
    /\ recordMsg' = << m >>
    /\ UNCHANGED << shared, goal, mainAt, recordAt, recorded, progressPc,
                    snap, quiet >>
    /\ UNCHANGED << orchVars, recVars, uciVars, gameVars >>

\* The next fetch_add(1, Relaxed) of the record call main is in; the call
\* returns after the last one.
RecordFetchAdd ==
    /\ recordMsg # << >>
    /\ LET incs == Increments(recordMsg[1])
           last == recordAt + 1 = Len(incs)
       IN  /\ shared' = [shared EXCEPT ![incs[recordAt + 1]] = @ + 1]
           /\ recordAt' = IF last THEN 0 ELSE recordAt + 1
           /\ recordMsg' = IF last THEN << >> ELSE recordMsg
           /\ recorded' = IF last THEN recorded + 1 ELSE recorded
    /\ quiet' = IF Loading THEN FALSE ELSE quiet
    /\ UNCHANGED << goal, mainAt, progressPc, snap >>
    /\ UNCHANGED << orchVars, recVars, uciVars, gameVars >>

\* `rx.recv().await` returns None, every Sender being dropped; main calls
\* progress_handle.abort() and goes on to print_summary. The progress task
\* is cancelled where it awaits the tick, at once or when it gets there.
LoopEnds ==
    /\ mainAt = "recv"
    /\ recordMsg = << >>
    /\ mainAt' = "summary"
    /\ UNCHANGED << shared, goal, recordMsg, recordAt, recorded, progressPc,
                    snap, quiet >>
    /\ UNCHANGED << orchVars, recVars, uciVars, gameVars >>

\* `interval.tick().await` returns in the progress task.
Tick ==
    /\ progressPc = "tick"
    /\ mainAt # "summary"
    /\ progressPc' = "total"
    /\ UNCHANGED << shared, goal, mainAt, recordMsg, recordAt, recorded,
                    snap, quiet >>
    /\ UNCHANGED << orchVars, recVars, uciVars, gameVars >>

\* `let total = self.total_games();`
LoadTotal ==
    /\ progressPc = "total"
    /\ snap' = [NoSnapshot EXCEPT !.total = shared.games_completed]
    /\ quiet' = TRUE
    /\ progressPc' = "stockfish_wins"
    /\ UNCHANGED << shared, goal, mainAt, recordMsg, recordAt, recorded >>
    /\ UNCHANGED << orchVars, recVars, uciVars, gameVars >>

\* `let stockfish_wins = self.stockfish_wins.load(Ordering::Relaxed);`
LoadStockfishWins ==
    /\ progressPc = "stockfish_wins"
    /\ snap' = [snap EXCEPT !.stockfish_wins = shared.stockfish_wins]
    /\ progressPc' = "reckless_wins"
    /\ UNCHANGED << shared, goal, mainAt, recordMsg, recordAt, recorded,
                    quiet >>
    /\ UNCHANGED << orchVars, recVars, uciVars, gameVars >>

\* `let reckless_wins = self.reckless_wins.load(Ordering::Relaxed);`
LoadRecklessWins ==
    /\ progressPc = "reckless_wins"
    /\ snap' = [snap EXCEPT !.reckless_wins = shared.reckless_wins]
    /\ progressPc' = "draws"
    /\ UNCHANGED << shared, goal, mainAt, recordMsg, recordAt, recorded,
                    quiet >>
    /\ UNCHANGED << orchVars, recVars, uciVars, gameVars >>

\* `let draws = self.draws.load(Ordering::Relaxed);` and the Progress event
\* with the four values.
LoadDraws ==
    /\ progressPc = "draws"
    /\ snap' = [snap EXCEPT !.draws = shared.draws]
    /\ progressPc' = "emitted"
    /\ UNCHANGED << shared, goal, mainAt, recordMsg, recordAt, recorded,
                    quiet >>
    /\ UNCHANGED << orchVars, recVars, uciVars, gameVars >>

\* `if stats_clone.total_games() >= total_games { break; }`
CheckTotal ==
    /\ progressPc = "emitted"
    /\ progressPc' = IF shared.games_completed >= goal THEN "exited"
                     ELSE "tick"
    /\ UNCHANGED << shared, goal, mainAt, recordMsg, recordAt, recorded,
                    snap, quiet >>
    /\ UNCHANGED << orchVars, recVars, uciVars, gameVars >>

InitStats ==
    /\ OrchParked
    /\ RecParked
    /\ UciParked
    /\ GameParked
    /\ goal \in 0 .. MaxRecords
    /\ ProgIdle

NextStats ==
    \/ \E m \in Messages : LoopRecv(m)
    \/ RecordFetchAdd
    \/ LoopEnds
    \/ Tick
    \/ LoadTotal
    \/ LoadStockfishWins
    \/ LoadRecklessWins
    \/ LoadDraws
    \/ CheckTotal

StatsSpec == InitStats /\ [][NextStats]_vars

(* ------------------------------------------------------------------ C22 *)

\* The three sums of a set of counters agree.
Consistent(s) ==
    /\ s.games_completed = s.stockfish_wins + s.reckless_wins + s.draws
    /\ s.stockfish_wins = s.stockfish_white_wins + s.stockfish_black_wins
    /\ s.reckless_wins = s.reckless_white_wins + s.reckless_black_wins

\* How far the outcome counters of s are ahead of its count of games.
Lead(s) == (s.stockfish_wins + s.reckless_wins + s.draws) - s.games_completed

\* The values of one Progress event, as counters.
Snapshot ==
    [ZeroStats EXCEPT !.games_completed = snap.total,
                      !.stockfish_wins = snap.stockfish_wins,
                      !.reckless_wins = snap.reckless_wins,
                      !.draws = snap.draws]

\* No counter of the shared MatchStats decreases.
NeverDecremented == \A c \in Counters : shared'[c] >= shared[c]

====
